---- MODULE Spec2Model ----
(***************************************************************************)
(* Request coalescing (single flight) coordinator of shared-call-py:       *)
(* SharedCall (src/src/_sync.py, blocking threads) and AsyncSharedCall     *)
(* (src/src/_async.py, cooperative tasks).  Both classes have the same     *)
(* statements; they differ in where a caller can be interleaved with the   *)
(* others, which the variable mode selects.                                *)
(***************************************************************************)
EXTENDS Integers, FiniteSets, Sequences, TLC

\* Number of callers; caller t calls call() once, with arguments that
\* identify it (as tracked(20), tracked(30) in the tests).
NCallers == 3

Callers == 1..NCallers

\* The CallKeys the callers choose from.
Keys == {"K1", "K2"}

FirstKey == "K1"

\* The two coordinators.
Modes == {"sync", "async"}

\* No caller / no PendingCall / absent dict entry.
None == 0

VARIABLES
    mode,        \* "sync": SharedCall, "async": AsyncSharedCall
    req,         \* req[t]: the arguments caller t passed to call()
    pc,          \* pc[t]: where caller t is inside call()
    key,         \* key[t]: the key of caller t's call
    fn_call,     \* fn_call[t]: the PendingCall t captured (named by its leader)
    is_leader,   \* is_leader[t]
    ret,         \* ret[t]: what call() delivered to t
    in_flight,   \* self.in_flight: key -> PendingCall (None: absent)
    calls,       \* calls[c]: the SyncCall/AsyncCall object created by leader c
    lock,        \* self.lock: None or its holder
    stats,       \* the Stats object self.stats refers to
    errTmp,      \* errTmp[t]: the operand of t's pending `errors += 1`
    running,     \* async: the task that runs until its next suspension point
    snap,        \* the Stats object the last get_stats() returned
    call_count,  \* call_count[t]: times caller t entered the work function
    resetCalled  \* reset_stats() has been called

vars == <<mode, req, pc, key, fn_call, is_leader, ret, in_flight, calls, lock,
          stats, errTmp, running, snap, call_count, resetCalled>>

----------------------------------------------------------------------------
(* src/_core: Result and Stats *)

\* Result(): neither value nor error.
Unset == [tag |-> "unset", val |-> None]

\* Result(value=v)
Success(v) == [tag |-> "value", val |-> v]

\* Result(error=e)
Failure(e) == [tag |-> "error", val |-> e]

\* Result.unwrap(): return the value, raise the stored error; an unset
\* Result has nothing to deliver and is a logic error.
unwrap(r) ==
    CASE r.tag = "value" -> [kind |-> "return", val |-> r.val]
      [] r.tag = "error" -> [kind |-> "raise", val |-> r.val]
      [] OTHER -> [kind |-> "raise", val |-> -1]

\* Stats(): four counters, all 0.
Stats == [hits |-> 0, misses |-> 0, errors |-> 0, in_flight |-> 0]

\* SyncCall(result=Result(), event=threading.Event())
NewCall == [result |-> Unset, event |-> FALSE]

NoTmp == [val |-> -1, live |-> TRUE]

NoSnap == [ref |-> "none", val |-> Stats]

NoRet == [kind |-> "none", val |-> None]

\* An error that is not an Exception, leaving call() uncaught.
Uncaught == [kind |-> "raise", val |-> -3]

\* asyncio.CancelledError raised in a task cancelled while it waits.
Cancelled == [kind |-> "raise", val |-> -4]

\* The error raised by the key derivation, propagating out of call().
DeriveError == [kind |-> "raise", val |-> -5]

----------------------------------------------------------------------------
(* keys: call()'s key resolution and group()'s key_fn *)

\* key=None: no key supplied.
NoKey == [given |-> FALSE, text |-> ""]

\* key=s: the caller's explicit key.
Explicit(s) == [given |-> TRUE, text |-> s]

\* *args, **kwargs: the positional values in order and the keyword arguments
\* in call-site order.
NoArgs == [pos |-> <<>>, kw |-> <<>>]

\* The argument lists the callers choose from: f("u1"), f("u1", a=1, b=2),
\* f("u1", b=2, a=1), f(""), f("", b=2).
Args ==
    { [pos |-> <<"u1">>, kw |-> <<>>],
      [pos |-> <<"u1">>, kw |-> << <<"a", 1>>, <<"b", 2>> >>],
      [pos |-> <<"u1">>, kw |-> << <<"b", 2>>, <<"a", 1>> >>],
      [pos |-> <<"">>, kw |-> <<>>],
      [pos |-> <<"">>, kw |-> << <<"b", 2>> >>] }

\* f(handle): an argument list holding a live resource handle.
BadArgs == [pos |-> <<"#handle">>, kw |-> <<>>]

\* The keys call() is given: none, the empty string, a key.
ExplicitKeys == {NoKey, Explicit(""), Explicit("K1")}

\* f"{fn.__module__}.{fn.__name__}" of the work function.
WorkFn == "tests.tracked"

NoReq == [via |-> "", key |-> NoKey, args |-> NoArgs, by |-> None]

\* The text of a value.
Text(v) == CASE v = 1 -> "1" [] v = 2 -> "2" [] OTHER -> "?"

\* The rank of a keyword name in sorted order.
KwRank(n) == CASE n = "a" -> 1 [] n = "b" -> 2 [] OTHER -> 3

RECURSIVE JoinPos(_)
JoinPos(s) ==
    IF s = <<>> THEN "" ELSE "'" \o Head(s) \o "'," \o JoinPos(Tail(s))

RECURSIVE JoinKw(_)
JoinKw(s) ==
    IF s = <<>> THEN ""
    ELSE Head(s)[1] \o "=" \o Text(Head(s)[2]) \o "," \o JoinKw(Tail(s))

\* generate_key(*args, **kwargs): a value-based fingerprint, the positional
\* arguments in order and the keyword arguments sorted by name.
generate_key(a) ==
    "(" \o JoinPos(a.pos) \o "){"
        \o JoinKw(SortSeq(a.kw, LAMBDA p, q : KwRank(p[1]) < KwRank(q[1])))
        \o "}"

\* generate_key(*args, **kwargs) returns: every argument value can be
\* serialized.  A live resource handle makes the serialization raise.
Serializable(a) == \A i \in 1..Len(a.pos) : a.pos[i] # "#handle"

\* A key made of the work function's name alone.
DeriveNameOnly(k, fn, a) == IF k.given /\ k.text # "" THEN k.text ELSE fn

\* if not key: key = f"{fn.__module__}.{fn.__name__}:{generate_key(...)}"
DeriveKey(k, fn, a) ==
    IF k.given /\ k.text # "" THEN k.text ELSE fn \o ":" \o generate_key(a)

\* Line 33 raises: the key is derived, and the derivation fails.
DeriveRaises(k, a) == ~(k.given /\ k.text # "") /\ ~Serializable(a)

\* The key functions given to group(): none, lambda x: "fixed_key" (here
\* "K1"), and lambda uid: uid.
KeyFns == {"none", "fixed", "raw"}

\* key_fn(*args, **kwargs)
key_fn(kf, a) == IF kf = "fixed" THEN "K1" ELSE a.pos[1]

\* custom_key = key_fn(*args, **kwargs) if key_fn else None
custom_key(kf, a) == IF kf = "none" THEN NoKey ELSE Explicit(key_fn(kf, a))

\* Every key the registry can hold.
RegistryKeys ==
    Keys \cup {DeriveKey(NoKey, WorkFn, a) : a \in Args \cup {NoArgs}}
         \cup ({a.pos[1] : a \in Args} \ {""})

----------------------------------------------------------------------------
(* helpers *)

\* dict.pop(key, None)
Pop(d, k) == [d EXCEPT ![k] = None]

\* A clear that empties one key only.
ClearOne(d) == [d EXCEPT !["K2"] = None]

\* dict.clear()
Clear(d) == [k \in DOMAIN d |-> None]

\* dataclasses.replace(self.stats): a new object with the same fields.
NoCopy(s) == [ref |-> "live", val |-> s]

replace(s) == [ref |-> "copy", val |-> s]

\* What an object returned by get_stats() shows once self.stats, the object
\* s refers to, is changed in place into s2.
Seen(s2) == IF snap.ref = "live" THEN [snap EXCEPT !.val = s2] ELSE snap

\* What it shows once self.stats is rebound to another object.
Detached == IF snap.ref = "live" THEN [snap EXCEPT !.ref = "stale"] ELSE snap

\* A task of the cooperative model keeps running until it suspends; threads
\* of the blocking model can be preempted anywhere.
CanRun(t) == running \in {None, t}

Sched(t, suspends) == IF mode = "async" /\ ~suspends THEN t ELSE None

TypeOK ==
    /\ mode \in Modes
    /\ pc \in [Callers -> {"idle", "reg", "invoke", "work", "err_read",
                           "err_write", "lock2", "fin", "set", "wait", "done"}]
    /\ key \in [Callers -> RegistryKeys \cup {""}]
    /\ \A t \in Callers : req[t].args \in Args \cup {NoArgs, BadArgs}
    /\ fn_call \in [Callers -> Callers \cup {None}]
    /\ is_leader \in [Callers -> BOOLEAN]
    /\ in_flight \in [RegistryKeys -> Callers \cup {None}]
    /\ lock \in Callers \cup {None}
    /\ running \in Callers \cup {None}
    /\ resetCalled \in BOOLEAN

Init ==
    /\ mode \in Modes
    /\ req = [t \in Callers |-> NoReq]
    /\ pc = [t \in Callers |-> "idle"]
    /\ key = [t \in Callers |-> ""]
    /\ fn_call = [t \in Callers |-> None]
    /\ is_leader = [t \in Callers |-> FALSE]
    /\ ret = [t \in Callers |-> NoRet]
    /\ in_flight = [k \in RegistryKeys |-> None]
    /\ calls = [c \in Callers |-> NewCall]
    /\ lock = None
    /\ stats = Stats
    /\ errTmp = [t \in Callers |-> NoTmp]
    /\ running = None
    /\ snap = NoSnap
    /\ call_count = [t \in Callers |-> 0]
    /\ resetCalled = FALSE

----------------------------------------------------------------------------
(* SharedCall.call / AsyncSharedCall.call *)

\* Caller t enters call(key, fn, *args, **kwargs), directly (via "call") or
\* from a wrapper made by group(key_fn) (via the key_fn), from the work
\* function of caller `by` or from outside (None): the key is resolved and
\* `with self.lock:` is entered.  Callers are named in the order they arrive.
EnterFrom(t, via, k, a, by) ==
    /\ pc[t] = "idle"
    /\ \A u \in Callers : u < t => pc[u] # "idle"
    /\ CanRun(t)
    /\ ~DeriveRaises(k, a)
    /\ lock = None
    /\ lock' = t
    /\ req' = [req EXCEPT ![t] = [via |-> via, key |-> k, args |-> a, by |-> by]]
    /\ key' = [key EXCEPT ![t] = DeriveKey(k, WorkFn, a)]
    /\ pc' = [pc EXCEPT ![t] = "reg"]
    /\ running' = Sched(t, FALSE)
    /\ UNCHANGED <<mode, fn_call, is_leader, ret, in_flight, calls, stats,
                   errTmp, snap, call_count, resetCalled>>

\* A call from outside any work function.
Enter(t, via, k, a) == EnterFrom(t, via, k, a, None)

\* The work function that caller t executes as leader calls call() with t's
\* own key: the inner call u runs inside t's work function.
reenter(t, u) ==
    /\ pc[t] = "work"
    /\ EnterFrom(u, "call", Explicit(key[t]), NoArgs, t)

\* The work function of caller t can end: it has no inner call that has not
\* returned.
WorkCanEnd(t) == \A u \in Callers : req[u].by = t => pc[u] = "done"

\* call(key, fn, *args): caller t enters call() with the explicit key k and
\* enters `with self.lock:`.  Callers are named in the order they arrive, and
\* keys in the order they are first used.
call(t, k) ==
    /\ k = FirstKey \/ \E u \in Callers : pc[u] # "idle" /\ key[u] = FirstKey
    /\ Enter(t, "call", Explicit(k), NoArgs)

\* call(key, fn, *args, **kwargs) with the key and arguments of the caller's
\* choice.
call_args(t, k, a) == Enter(t, "call", k, a)

\* A derivation failure that is raised only after the call was registered as
\* a leader's.
DeriveRaisesLate(t, k, a) ==
    /\ pc[t] = "idle"
    /\ \A u \in Callers : u < t => pc[u] # "idle"
    /\ CanRun(t)
    /\ DeriveRaises(k, a)
    /\ req' = [req EXCEPT ![t] = [via |-> "call", key |-> k, args |-> a, by |-> None]]
    /\ ret' = [ret EXCEPT ![t] = DeriveError]
    /\ pc' = [pc EXCEPT ![t] = "done"]
    /\ stats' = [stats EXCEPT !.misses = @ + 1, !.in_flight = @ + 1]
    /\ running' = None
    /\ UNCHANGED <<mode, key, fn_call, is_leader, in_flight, calls, lock,
                   errTmp, snap, call_count, resetCalled>>

\* call(key, fn, *args, **kwargs) with no usable key and arguments that the
\* key derivation cannot serialize: line 33 raises before `with self.lock:`
\* is reached, and the error leaves call().
derive_raises(t, k, a) ==
    /\ pc[t] = "idle"
    /\ \A u \in Callers : u < t => pc[u] # "idle"
    /\ CanRun(t)
    /\ DeriveRaises(k, a)
    /\ req' = [req EXCEPT ![t] = [via |-> "call", key |-> k, args |-> a, by |-> None]]
    /\ ret' = [ret EXCEPT ![t] = DeriveError]
    /\ pc' = [pc EXCEPT ![t] = "done"]
    /\ running' = None
    /\ UNCHANGED <<mode, key, fn_call, is_leader, in_flight, calls, lock, stats,
                   errTmp, snap, call_count, resetCalled>>

\* wrapper(*args, **kwargs) of group(key_fn)(fn):
\* return self.call(custom_key, fn, *args, **kwargs)
wrapper(t, kf, a) == Enter(t, kf, custom_key(kf, a), a)

\* finally: `with self.lock:` entered.
acquire(t) ==
    /\ pc[t] = "lock2"
    /\ CanRun(t)
    /\ lock = None
    /\ lock' = t
    /\ pc' = [pc EXCEPT ![t] = "fin"]
    /\ running' = Sched(t, FALSE)
    /\ UNCHANGED <<mode, req, key, fn_call, is_leader, ret, in_flight, calls, stats,
                   errTmp, snap, call_count, resetCalled>>

\* A follower that is counted as a miss.
FollowerCountsMiss(t) ==
    LET s2 == [stats EXCEPT !.misses = @ + 1]
        c == in_flight[key[t]]
    IN  /\ stats' = s2
        /\ snap' = Seen(s2)
        /\ fn_call' = [fn_call EXCEPT ![t] = c]
        /\ is_leader' = [is_leader EXCEPT ![t] = FALSE]
        /\ pc' = [pc EXCEPT ![t] = "wait"]
        /\ running' = Sched(t, ~calls[c].event)
        /\ UNCHANGED <<in_flight, calls>>

\* A follower that sets the signal of the PendingCall it attaches to.
FollowerSignals(t) ==
    LET s2 == [stats EXCEPT !.hits = @ + 1]
        c == in_flight[key[t]]
    IN  /\ stats' = s2
        /\ snap' = Seen(s2)
        /\ fn_call' = [fn_call EXCEPT ![t] = c]
        /\ is_leader' = [is_leader EXCEPT ![t] = FALSE]
        /\ pc' = [pc EXCEPT ![t] = "wait"]
        /\ running' = Sched(t, FALSE)
        /\ calls' = [calls EXCEPT ![c].event = TRUE]
        /\ UNCHANGED in_flight

\* A follower that attaches without being counted.
FollowerUncounted(t) ==
    LET c == in_flight[key[t]]
    IN  /\ fn_call' = [fn_call EXCEPT ![t] = c]
        /\ is_leader' = [is_leader EXCEPT ![t] = FALSE]
        /\ pc' = [pc EXCEPT ![t] = "wait"]
        /\ running' = Sched(t, ~calls[c].event)
        /\ UNCHANGED <<in_flight, calls, stats, snap>>

\* The key is registered: hits += 1 and the existing PendingCall is captured.
RegisterFollower(t) ==
    LET s2 == [stats EXCEPT !.hits = @ + 1]
        c == in_flight[key[t]]
    IN  /\ stats' = s2
        /\ snap' = Seen(s2)
        /\ fn_call' = [fn_call EXCEPT ![t] = c]
        /\ is_leader' = [is_leader EXCEPT ![t] = FALSE]
        /\ pc' = [pc EXCEPT ![t] = "wait"]
        /\ running' = Sched(t, ~calls[c].event)
        /\ UNCHANGED <<in_flight, calls>>

\* A leader that creates its PendingCall without inserting it in the registry.
LeaderNoInsert(t) ==
    LET s2 == [stats EXCEPT !.misses = @ + 1, !.in_flight = @ + 1]
    IN  /\ stats' = s2
        /\ snap' = Seen(s2)
        /\ calls' = [calls EXCEPT ![t] = NewCall]
        /\ in_flight' = in_flight
        /\ fn_call' = [fn_call EXCEPT ![t] = t]
        /\ is_leader' = [is_leader EXCEPT ![t] = TRUE]
        /\ pc' = [pc EXCEPT ![t] = "invoke"]
        /\ running' = Sched(t, FALSE)

\* The key is not registered: misses += 1, in_flight += 1, a new PendingCall
\* is inserted under the key.
RegisterLeader(t) ==
    LET s2 == [stats EXCEPT !.misses = @ + 1, !.in_flight = @ + 1]
    IN  /\ stats' = s2
        /\ snap' = Seen(s2)
        /\ calls' = [calls EXCEPT ![t] = NewCall]
        /\ in_flight' = [in_flight EXCEPT ![key[t]] = t]
        /\ fn_call' = [fn_call EXCEPT ![t] = t]
        /\ is_leader' = [is_leader EXCEPT ![t] = TRUE]
        /\ pc' = [pc EXCEPT ![t] = "invoke"]
        /\ running' = Sched(t, FALSE)

\* A registration that never finds the key: every caller leads.
AlwaysLeader(t) == RegisterLeader(t)

\* A registration that finds the PendingCall of a leader still executing for
\* the key even when the registry no longer holds it.
AttachToRunning(t) ==
    LET running_for_key ==
            {c \in Callers : /\ is_leader[c] /\ key[c] = key[t]
                             /\ pc[c] \in {"invoke", "work", "err_read",
                                           "err_write", "lock2", "fin"}}
    IN  IF running_for_key # {}
        THEN LET c == CHOOSE x \in running_for_key : TRUE
                 s2 == [stats EXCEPT !.hits = @ + 1]
             IN  /\ stats' = s2
                 /\ snap' = Seen(s2)
                 /\ fn_call' = [fn_call EXCEPT ![t] = c]
                 /\ is_leader' = [is_leader EXCEPT ![t] = FALSE]
                 /\ pc' = [pc EXCEPT ![t] = "wait"]
                 /\ running' = Sched(t, ~calls[c].event)
                 /\ UNCHANGED <<in_flight, calls>>
        ELSE RegisterLeader(t)

\* A registration that attaches to whatever PendingCall the registry holds,
\* under any key.
AttachAnyKey(t) ==
    LET held == {k \in DOMAIN in_flight : in_flight[k] # None}
    IN  IF held # {}
        THEN LET c == in_flight[CHOOSE k \in held : TRUE]
                 s2 == [stats EXCEPT !.hits = @ + 1]
             IN  /\ stats' = s2
                 /\ snap' = Seen(s2)
                 /\ fn_call' = [fn_call EXCEPT ![t] = c]
                 /\ is_leader' = [is_leader EXCEPT ![t] = FALSE]
                 /\ pc' = [pc EXCEPT ![t] = "wait"]
                 /\ running' = Sched(t, ~calls[c].event)
                 /\ UNCHANGED <<in_flight, calls>>
        ELSE RegisterLeader(t)

\* A registration that lets a call made from inside a work function execute
\* on its own.
LeadIfReentrant(t) ==
    IF in_flight[key[t]] # None /\ req[t].by = None
    THEN RegisterFollower(t) ELSE RegisterLeader(t)

\* The body of the first `with self.lock:` block.
Registration(t) ==
    IF in_flight[key[t]] # None THEN RegisterFollower(t) ELSE RegisterLeader(t)

\* A registration block that is left without releasing the lock.
RegisterKeepsLock(t) ==
    /\ pc[t] = "reg"
    /\ CanRun(t)
    /\ lock = t
    /\ Registration(t)
    /\ lock' = t
    /\ UNCHANGED <<mode, req, key, ret, errTmp, call_count, resetCalled>>

register(t) ==
    /\ pc[t] = "reg"
    /\ CanRun(t)
    /\ lock = t
    /\ Registration(t)
    /\ lock' = None
    /\ UNCHANGED <<mode, req, key, ret, errTmp, call_count, resetCalled>>

\* The leader calls fn(*args, **kwargs), outside the lock.  In the
\* cooperative model `await fn(...)` is where other tasks get to run.
invoke(t) ==
    /\ pc[t] = "invoke"
    /\ CanRun(t)
    /\ call_count' = [call_count EXCEPT ![t] = @ + 1]
    /\ pc' = [pc EXCEPT ![t] = "work"]
    /\ running' = Sched(t, TRUE)
    /\ UNCHANGED <<mode, req, key, fn_call, is_leader, ret, in_flight, calls, lock,
                   stats, errTmp, snap, resetCalled>>

\* A completion that sets the signal as soon as the Result is stored, before
\* the removal step.
ReturnSignalsFirst(t) ==
    /\ pc[t] = "work"
    /\ CanRun(t)
    /\ calls' = [calls EXCEPT ![fn_call[t]] = [result |-> Success(t), event |-> TRUE]]
    /\ pc' = [pc EXCEPT ![t] = "lock2"]
    /\ running' = Sched(t, lock # None)
    /\ UNCHANGED <<mode, req, key, fn_call, is_leader, ret, in_flight, lock, stats,
                   errTmp, snap, call_count, resetCalled>>

\* fn returned: fn_call.result = Result(value=...).  The value is the one fn
\* computes from the leader's arguments.
work_returns(t) ==
    /\ pc[t] = "work"
    /\ WorkCanEnd(t)
    /\ CanRun(t)
    /\ calls' = [calls EXCEPT ![fn_call[t]].result = Success(t)]
    /\ pc' = [pc EXCEPT ![t] = "lock2"]
    /\ running' = Sched(t, lock # None)
    /\ UNCHANGED <<mode, req, key, fn_call, is_leader, ret, in_flight, lock, stats,
                   errTmp, snap, call_count, resetCalled>>

\* A failure after which the coordinator invokes the work again.
RaiseRetries(t) ==
    /\ pc[t] = "work"
    /\ CanRun(t)
    /\ calls' = [calls EXCEPT ![fn_call[t]].result = Failure(t)]
    /\ pc' = [pc EXCEPT ![t] = "invoke"]
    /\ running' = Sched(t, FALSE)
    /\ UNCHANGED <<mode, req, key, fn_call, is_leader, ret, in_flight, lock, stats,
                   errTmp, snap, call_count, resetCalled>>

\* fn raised e: fn_call.result = Result(error=e).
work_raises(t) ==
    /\ pc[t] = "work"
    /\ WorkCanEnd(t)
    /\ CanRun(t)
    /\ calls' = [calls EXCEPT ![fn_call[t]].result = Failure(t)]
    /\ pc' = [pc EXCEPT ![t] = "err_read"]
    /\ running' = Sched(t, FALSE)
    /\ UNCHANGED <<mode, req, key, fn_call, is_leader, ret, in_flight, lock, stats,
                   errTmp, snap, call_count, resetCalled>>

\* fn ended with an error that is not an Exception (KeyboardInterrupt,
\* SystemExit; asyncio.CancelledError when the leader's task is cancelled
\* inside `await fn(...)`): `except Exception` does not catch it, the Result
\* is left as it is, the finally block runs and the error leaves call().
work_aborts(t) ==
    /\ pc[t] = "work"
    /\ WorkCanEnd(t)
    /\ CanRun(t)
    /\ ret' = [ret EXCEPT ![t] = Uncaught]
    /\ pc' = [pc EXCEPT ![t] = "lock2"]
    /\ running' = Sched(t, lock # None)
    /\ UNCHANGED <<mode, req, key, fn_call, is_leader, in_flight, calls, lock, stats,
                   errTmp, snap, call_count, resetCalled>>

\* self.stats.errors += 1, not under the lock: the operand is loaded ...
err_read(t) ==
    /\ pc[t] = "err_read"
    /\ CanRun(t)
    /\ errTmp' = [errTmp EXCEPT ![t] = [val |-> stats.errors, live |-> TRUE]]
    /\ pc' = [pc EXCEPT ![t] = "err_write"]
    /\ running' = Sched(t, FALSE)
    /\ UNCHANGED <<mode, req, key, fn_call, is_leader, ret, in_flight, calls, lock,
                   stats, snap, call_count, resetCalled>>

\* ... and the sum is stored into the Stats object it was loaded from, which
\* a reset_stats() in between has replaced.
err_write(t) ==
    LET s2 == IF errTmp[t].live
              THEN [stats EXCEPT !.errors = errTmp[t].val + 1]
              ELSE stats
    IN  /\ pc[t] = "err_write"
        /\ CanRun(t)
        /\ stats' = s2
        /\ snap' = Seen(s2)
        /\ errTmp' = [errTmp EXCEPT ![t] = NoTmp]
        /\ pc' = [pc EXCEPT ![t] = "lock2"]
        /\ running' = Sched(t, lock # None)
        /\ UNCHANGED <<mode, req, key, fn_call, is_leader, ret, in_flight, calls,
                       lock, call_count, resetCalled>>

\* A completion that leaves the resolved PendingCall in the registry.
FinishKeeps(t) ==
    LET s2 == [stats EXCEPT !.in_flight = @ - 1]
    IN  /\ pc[t] = "fin"
        /\ CanRun(t)
        /\ lock = t
        /\ in_flight' = in_flight
        /\ stats' = s2
        /\ snap' = Seen(s2)
        /\ lock' = None
        /\ pc' = [pc EXCEPT ![t] = "set"]
        /\ running' = Sched(t, FALSE)
        /\ UNCHANGED <<mode, req, key, fn_call, is_leader, ret, calls, errTmp,
                       call_count, resetCalled>>

\* A completion that signals only when its removal found the leader's entry.
FinishSignalsIfFound(t) ==
    LET s2 == [stats EXCEPT !.in_flight = @ - 1]
        found == in_flight[key[t]] = t
    IN  /\ pc[t] = "fin"
        /\ CanRun(t)
        /\ lock = t
        /\ in_flight' = Pop(in_flight, key[t])
        /\ stats' = s2
        /\ snap' = Seen(s2)
        /\ lock' = None
        /\ pc' = [pc EXCEPT ![t] = IF found THEN "set" ELSE "wait"]
        /\ running' = IF found THEN Sched(t, FALSE) ELSE None
        /\ UNCHANGED <<mode, req, key, fn_call, is_leader, ret, calls, errTmp,
                       call_count, resetCalled>>

\* A removal step that lowers the in_flight counter only when it finds an
\* entry under its key.
FinishCountsIfFound(t) ==
    LET s2 == IF in_flight[key[t]] # None
              THEN [stats EXCEPT !.in_flight = @ - 1] ELSE stats
    IN  /\ pc[t] = "fin"
        /\ CanRun(t)
        /\ lock = t
        /\ in_flight' = Pop(in_flight, key[t])
        /\ stats' = s2
        /\ snap' = Seen(s2)
        /\ lock' = None
        /\ pc' = [pc EXCEPT ![t] = "set"]
        /\ running' = Sched(t, FALSE)
        /\ UNCHANGED <<mode, req, key, fn_call, is_leader, ret, calls, errTmp,
                       call_count, resetCalled>>

\* finally: with self.lock: self.in_flight.pop(key, None);
\* self.stats.in_flight -= 1
finish(t) ==
    LET s2 == [stats EXCEPT !.in_flight = @ - 1]
    IN  /\ pc[t] = "fin"
        /\ CanRun(t)
        /\ lock = t
        /\ in_flight' = Pop(in_flight, key[t])
        /\ stats' = s2
        /\ snap' = Seen(s2)
        /\ lock' = None
        /\ pc' = [pc EXCEPT ![t] = "set"]
        /\ running' = Sched(t, FALSE)
        /\ UNCHANGED <<mode, req, key, fn_call, is_leader, ret, calls, errTmp,
                       call_count, resetCalled>>

\* fn_call.event.set(), the last statement of the finally block.  After it
\* an error that no except clause caught leaves call(); otherwise the leader
\* goes on to the wait.
set_event(t) ==
    /\ pc[t] = "set"
    /\ CanRun(t)
    /\ calls' = [calls EXCEPT ![fn_call[t]].event = TRUE]
    /\ pc' = [pc EXCEPT ![t] = IF ret[t] = NoRet THEN "wait" ELSE "done"]
    /\ running' = IF ret[t] = NoRet THEN Sched(t, FALSE) ELSE None
    /\ UNCHANGED <<mode, req, key, fn_call, is_leader, ret, in_flight, lock, stats,
                   errTmp, snap, call_count, resetCalled>>

\* What the caller reads after the wait, by a fresh lookup of its key.
OutcomeByLookup(t) ==
    IF in_flight[key[t]] = None
    THEN [kind |-> "raise", val |-> -2]
    ELSE unwrap(calls[in_flight[key[t]]].result)

\* fn_call.result.unwrap() of the PendingCall the caller captured.
Outcome(t) == unwrap(calls[fn_call[t]].result)

\* A wait in which every caller that observes a failure counts it.
WaitCountsError(t) ==
    LET s2 == IF Outcome(t).kind = "raise" /\ ~is_leader[t]
              THEN [stats EXCEPT !.errors = @ + 1] ELSE stats
    IN  /\ pc[t] = "wait"
        /\ CanRun(t)
        /\ calls[fn_call[t]].event
        /\ ret' = [ret EXCEPT ![t] = Outcome(t)]
        /\ pc' = [pc EXCEPT ![t] = "done"]
        /\ running' = None
        /\ stats' = s2
        /\ snap' = Seen(s2)
        /\ UNCHANGED <<mode, req, key, fn_call, is_leader, in_flight, calls, lock,
                       errTmp, call_count, resetCalled>>

\* fn_call.event.wait(); return fn_call.result.unwrap()
wait(t) ==
    /\ pc[t] = "wait"
    /\ CanRun(t)
    /\ calls[fn_call[t]].event
    /\ ret' = [ret EXCEPT ![t] = Outcome(t)]
    /\ pc' = [pc EXCEPT ![t] = "done"]
    /\ running' = None
    /\ UNCHANGED <<mode, req, key, fn_call, is_leader, in_flight, calls, lock, stats,
                   errTmp, snap, call_count, resetCalled>>

\* A cancellation that also sets the signal the cancelled task waited on.
CancelWakes(t) ==
    /\ mode = "async"
    /\ pc[t] = "wait"
    /\ running = None
    /\ ~calls[fn_call[t]].event
    /\ ret' = [ret EXCEPT ![t] = Cancelled]
    /\ pc' = [pc EXCEPT ![t] = "done"]
    /\ calls' = [calls EXCEPT ![fn_call[t]].event = TRUE]
    /\ UNCHANGED <<mode, req, key, fn_call, is_leader, in_flight, lock, stats,
                   errTmp, running, snap, call_count, resetCalled>>

\* The task of a caller suspended in `await fn_call.event.wait()` is
\* cancelled: CancelledError is raised at the await and leaves call().
cancel_wait(t) ==
    /\ mode = "async"
    /\ pc[t] = "wait"
    /\ running = None
    /\ ~calls[fn_call[t]].event
    /\ ret' = [ret EXCEPT ![t] = Cancelled]
    /\ pc' = [pc EXCEPT ![t] = "done"]
    /\ UNCHANGED <<mode, req, key, fn_call, is_leader, in_flight, calls, lock, stats,
                   errTmp, running, snap, call_count, resetCalled>>

----------------------------------------------------------------------------
(* get_stats, reset_stats, forget, forget_all: one `with self.lock:` block *)
(* each, issued by the environment between the callers' steps.             *)

get_stats ==
    /\ lock = None
    /\ running = None
    /\ snap' = replace(stats)
    /\ UNCHANGED <<mode, req, pc, key, fn_call, is_leader, ret, in_flight, calls,
                   lock, stats, errTmp, running, call_count, resetCalled>>

\* A reset that also drops the registry.
ResetAll == [st |-> Stats, reg |-> Clear(in_flight)]

\* self.stats = Stats(): what reset_stats leaves in stats and the registry.
Reset == [st |-> Stats, reg |-> in_flight]

reset_stats ==
    /\ lock = None
    /\ running = None
    /\ stats' = Reset.st
    /\ in_flight' = Reset.reg
    /\ snap' = Detached
    /\ errTmp' = [t \in Callers |->
                    IF errTmp[t].val # -1 THEN [errTmp[t] EXCEPT !.live = FALSE]
                    ELSE errTmp[t]]
    /\ resetCalled' = TRUE
    /\ UNCHANGED <<mode, req, pc, key, fn_call, is_leader, ret, calls, lock,
                   running, call_count>>

\* A forget that also releases the callers waiting on the dropped PendingCall.
ForgetWakes(k) ==
    /\ lock = None
    /\ running = None
    /\ in_flight' = Pop(in_flight, k)
    /\ calls' = [c \in Callers |->
                   IF c = in_flight[k] THEN [calls[c] EXCEPT !.event = TRUE]
                   ELSE calls[c]]
    /\ UNCHANGED <<mode, req, pc, key, fn_call, is_leader, ret, lock, stats, errTmp,
                   running, snap, call_count, resetCalled>>

\* A forget that also lowers the in_flight counter when it removes an
\* entry.
ForgetCounts(k) ==
    LET s2 == IF in_flight[k] # None
              THEN [stats EXCEPT !.in_flight = @ - 1] ELSE stats
    IN  /\ lock = None
        /\ running = None
        /\ in_flight' = Pop(in_flight, k)
        /\ stats' = s2
        /\ snap' = Seen(s2)
        /\ UNCHANGED <<mode, req, pc, key, fn_call, is_leader, ret, calls, lock,
                       errTmp, running, call_count, resetCalled>>

\* with self.lock: self.in_flight.pop(key, None)
forget(k) ==
    /\ lock = None
    /\ running = None
    /\ in_flight' = Pop(in_flight, k)
    /\ UNCHANGED <<mode, req, pc, key, fn_call, is_leader, ret, calls, lock, stats,
                   errTmp, running, snap, call_count, resetCalled>>

\* with self.lock: self.in_flight.clear()
forget_all ==
    /\ lock = None
    /\ running = None
    /\ in_flight' = Clear(in_flight)
    /\ UNCHANGED <<mode, req, pc, key, fn_call, is_leader, ret, calls, lock, stats,
                   errTmp, running, snap, call_count, resetCalled>>

\* The steps of the callers inside call().
CallerSteps ==
    \/ \E t \in Callers : acquire(t)
    \/ \E t \in Callers : register(t)
    \/ \E t \in Callers : invoke(t)
    \/ \E t \in Callers : work_returns(t)
    \/ \E t \in Callers : work_raises(t)
    \/ \E t \in Callers : err_read(t)
    \/ \E t \in Callers : err_write(t)
    \/ \E t \in Callers : finish(t)
    \/ \E t \in Callers : set_event(t)
    \/ \E t \in Callers : wait(t)

\* The steps of the callers inside call(), and the invalidation operations.
Steps ==
    \/ CallerSteps
    \/ \E k \in Keys : forget(k)
    \/ forget_all

\* Concurrent calls, forget and forget_all on a coordinator that is not reset.
Next ==
    \/ \E t \in Callers, k \in Keys : call(t, k)
    \/ Steps

Spec == Init /\ [][Next]_vars

\* Concurrent calls alone: no invalidation, no reset.
NextCalls ==
    \/ \E t \in Callers, k \in Keys : call(t, k)
    \/ CallerSteps

SpecCalls == Init /\ [][NextCalls]_vars

\* Concurrent calls whose work can end with an uncaught error and whose
\* waiting tasks can be cancelled.
NextCancel ==
    \/ \E t \in Callers, k \in Keys : call(t, k)
    \/ CallerSteps
    \/ \E t \in Callers : work_aborts(t)
    \/ \E t \in Callers : cancel_wait(t)

SpecCancel == Init /\ [][NextCancel]_vars

\* Concurrent calls whose work function can call call() again with its own
\* key; no invalidation.
NextReenter ==
    \/ \E t \in Callers, k \in Keys : call(t, k)
    \/ \E t, u \in Callers : reenter(t, u)
    \/ CallerSteps

SpecReenter == Init /\ [][NextReenter]_vars

\* The callers of the runs that also reset or read the statistics.
StatsCallers == 1..(NCallers - 1)

\* The steps of callers whose work returns a value.
ReturningSteps ==
    \/ \E t \in Callers : acquire(t)
    \/ \E t \in Callers : register(t)
    \/ \E t \in Callers : invoke(t)
    \/ \E t \in Callers : work_returns(t)
    \/ \E t \in Callers : finish(t)
    \/ \E t \in Callers : set_event(t)
    \/ \E t \in Callers : wait(t)

\* Concurrent calls of call() with and without an explicit key.
NextKeys ==
    \/ \E t \in StatsCallers, k \in ExplicitKeys, a \in Args : call_args(t, k, a)
    \/ ReturningSteps

SpecKeys == Init /\ [][NextKeys]_vars

\* Concurrent calls of the wrappers group(key_fn) makes.
NextGroup ==
    \/ \E t \in StatsCallers, kf \in KeyFns, a \in Args : wrapper(t, kf, a)
    \/ ReturningSteps

SpecGroup == Init /\ [][NextGroup]_vars

\* The argument lists of the runs with failing key derivations: f("u1") and
\* f(handle).
DeriveArgs == {[pos |-> <<"u1">>, kw |-> <<>>], BadArgs}

\* Concurrent calls with and without an explicit key, with arguments that can
\* and cannot be serialized.
NextDerive ==
    \/ \E t \in Callers, k \in ExplicitKeys, a \in DeriveArgs : call_args(t, k, a)
    \/ \E t \in Callers, k \in ExplicitKeys, a \in DeriveArgs : derive_raises(t, k, a)
    \/ ReturningSteps

SpecDerive == Init /\ [][NextDerive]_vars

\* The steps of caller t inside call(), its work function included.
Run(t) ==
    \/ acquire(t)
    \/ register(t)
    \/ invoke(t)
    \/ work_returns(t)
    \/ work_raises(t)
    \/ err_read(t)
    \/ err_write(t)
    \/ finish(t)
    \/ set_event(t)
    \/ wait(t)

\* Calls, forget and forget_all with every caller scheduled fairly and every
\* work function terminating: a caller that can keep taking its next step
\* takes it.
NextLive ==
    \/ \E t \in StatsCallers, k \in Keys : call(t, k)
    \/ Steps

SpecLive == Init /\ [][NextLive]_vars /\ \A t \in Callers : WF_vars(Run(t))

\* The same with reset_stats().
NextReset ==
    \/ \E t \in StatsCallers, k \in Keys : call(t, k)
    \/ Steps
    \/ reset_stats

SpecReset == Init /\ [][NextReset]_vars

\* The same with reset_stats() and get_stats().
NextStats ==
    \/ \E t \in StatsCallers, k \in Keys : call(t, k)
    \/ Steps
    \/ reset_stats
    \/ get_stats

SpecStats == Init /\ [][NextStats]_vars

----------------------------------------------------------------------------
(* Claims *)

RECURSIVE SumOver(_, _)
SumOver(f, S) ==
    IF S = {} THEN 0
    ELSE LET x == CHOOSE y \in S : TRUE IN f[x] + SumOver(f, S \ {x})

\* The callers that have entered call().
Started == {t \in Callers : pc[t] # "idle"}

\* The callers that have completed their registration step.
Registered == {t \in Callers : pc[t] \notin {"idle", "reg"}}

\* The callers that captured PendingCall c, its leader included.
Attached(c) == {t \in Registered : fn_call[t] = c}

\* The callers registered under key k.
OnKey(k) == {t \in Registered : key[t] = k}

\* How often the work function was entered for key k.
Executions(k) == SumOver(call_count, {t \in Callers : key[t] = k})

\* Caller t has left the registration block in this step.
Registers(t) == pc[t] = "reg" /\ pc'[t] # "reg"

\* C1: the callers that register while a PendingCall for their key is in
\* the registry all capture that PendingCall and none of them enters the work
\* function; the work function is entered once per PendingCall, by its
\* leader, and every caller attached to it returns the value that execution
\* produced.
C1_AttachInv ==
    \A c \in Callers : is_leader[c] =>
        /\ SumOver(call_count, Attached(c)) <= 1
        /\ \A t \in Attached(c) :
              /\ t # c => ~is_leader[t] /\ call_count[t] = 0
              /\ pc[t] = "done" =>
                    /\ SumOver(call_count, Attached(c)) = 1
                    /\ call_count[c] = 1
                    /\ calls[c].result.tag = "value" => ret[t] = [kind |-> "return", val |-> c]

C1_AttachStep ==
    \A t \in Callers :
        (Registers(t) /\ in_flight[key[t]] # None) =>
            /\ fn_call'[t] = in_flight[key[t]]
            /\ ~is_leader'[t]
            /\ pc'[t] = "wait"
            /\ in_flight' = in_flight

C1_Coalescing == [](C1_AttachInv) /\ [][C1_AttachStep]_vars

\* C1 witness: three callers share one PendingCall and all have returned the
\* value of its single execution.
C1_Witness ==
    \E c \in Callers :
        /\ Cardinality(Attached(c)) >= 3
        /\ \A t \in Attached(c) : pc[t] = "done" /\ ret[t] = [kind |-> "return", val |-> c]
        /\ SumOver(call_count, Attached(c)) = 1

\* The callers that became leader.
Leaders == {t \in Registered : is_leader[t]}

\* Every caller that entered call() has returned.
Quiescent == Started # {} /\ \A t \in Started : pc[t] = "done"

\* C2: on a coordinator that was never reset, once N callers that share one
\* PendingCall (one leader, N - 1 followers) have all returned its value,
\* get_stats() reports misses = 1, hits = N - 1, errors = 0, in_flight = 0.
C2_StatsAccounting ==
    \A c \in Callers :
        ( /\ Quiescent
          /\ ~resetCalled
          /\ Attached(c) = Started
          /\ \A t \in Started : ret[t].kind = "return" )
        => replace(stats).val = [hits |-> Cardinality(Started) - 1, misses |-> 1,
                                 errors |-> 0, in_flight |-> 0]

\* C2 witness: three callers coalesced on one PendingCall and returned.
C2_Witness ==
    /\ Quiescent
    /\ ~resetCalled
    /\ Cardinality(Started) = 3
    /\ \E c \in Callers : Attached(c) = Started
    /\ \A t \in Started : ret[t].kind = "return"
    /\ stats.hits = 2

\* C3: when the leader's work raises, every caller attached to its
\* PendingCall is delivered that same error, and the errors counter moves only
\* in the leader's own `errors += 1`: a single failed execution leaves
\* errors = 1 however many followers it has.
C3_SameFailure ==
    /\ \A t \in Callers :
          (pc[t] = "done" /\ calls[fn_call[t]].result.tag = "error")
              => ret[t] = [kind |-> "raise", val |-> fn_call[t]]
    /\ \A c \in Callers :
          ( /\ Quiescent
            /\ ~resetCalled
            /\ Leaders = {c}
            /\ calls[c].result.tag = "error" )
          => /\ stats.errors = 1
             /\ \A t \in Started : ret[t] = [kind |-> "raise", val |-> c]

C3_ErrorsStep ==
    stats'.errors # stats.errors =>
        \/ reset_stats
        \/ \E t \in Callers :
              /\ is_leader[t]
              /\ calls[t].result.tag = "error"
              /\ pc[t] = "err_write" /\ pc'[t] = "lock2"
              /\ stats'.errors = errTmp[t].val + 1

C3_ErrorPropagation == [](C3_SameFailure) /\ [][C3_ErrorsStep]_vars

\* C3 witness: a leader and two followers have all been delivered the
\* leader's error and errors is 1.
C3_Witness ==
    \E c \in Callers :
        /\ Quiescent
        /\ Cardinality(Attached(c)) = 3
        /\ \A t \in Attached(c) : ret[t] = [kind |-> "raise", val |-> c]
        /\ stats.errors = 1

\* Leader c is still before its own removal step, yet the registry no longer
\* maps its key to its PendingCall: the entry was dropped while c is in flight.
Orphaned(c) ==
    /\ c \in Leaders
    /\ pc[c] \in {"invoke", "work", "err_read", "err_write", "lock2", "fin"}
    /\ in_flight[key[c]] # c

\* Caller t, having returned, was delivered the outcome its own PendingCall's
\* leader stored.
NormalOutcome(t) ==
    /\ calls[fn_call[t]].result.tag # "unset"
    /\ calls[fn_call[t]].result.val = fn_call[t]
    /\ ret[t] = unwrap(calls[fn_call[t]].result)

\* C4: once forget(K) has dropped the entry of a leader L1 that is still
\* executing, K is absent from the registry until a new call registers; a
\* single new call for K is the leader of its own PendingCall, L1 and the new
\* call each return the outcome of their own execution, and when both have
\* returned the work has been entered twice for K.
C4_ForgetScenario ==
    \A t1 \in Leaders :
        LET others == {u \in OnKey(key[t1]) : fn_call[u] # t1}
        IN  /\ (Orphaned(t1) /\ others = {}) => in_flight[key[t1]] = None
            /\ \A t2 \in others : others = {t2} =>
                  /\ is_leader[t2] /\ fn_call[t2] = t2
                  /\ Executions(key[t1]) = call_count[t1] + call_count[t2]
                  /\ pc[t1] = "done" => NormalOutcome(t1) /\ ret[t1].val = t1
                  /\ pc[t2] = "done" => NormalOutcome(t2) /\ ret[t2].val = t2
                  /\ (pc[t1] = "done" /\ pc[t2] = "done") => Executions(key[t1]) = 2

\* C4 witness: L1, which arrived first, is still inside the work function and
\* its entry is gone; the one new call for the same key led its own execution
\* and has returned its own value; the work has been entered twice.
C4_Witness ==
    \E t1, t2 \in Callers :
        /\ t1 < t2 /\ key[t1] = key[t2]
        /\ OnKey(key[t1]) = {t1, t2}
        /\ Orphaned(t1) /\ pc[t1] = "work"
        /\ is_leader[t2] /\ pc[t2] = "done"
        /\ ret[t2] = [kind |-> "return", val |-> t2]
        /\ Executions(key[t1]) = 2

\* C5: forget(K) leaves K absent; a PendingCall that is out of the registry
\* never enters it again, and a registering caller is attached to what the
\* registry holds for its key at that moment or, if the key is absent, becomes
\* the leader of a fresh PendingCall: no caller registering after a forget is
\* attached to a PendingCall registered before it.
C5_FreshStep ==
    /\ \A k \in Keys : forget(k) => in_flight'[k] = None
    /\ \A c \in Leaders : in_flight[key[c]] # c => in_flight'[key[c]] # c
    /\ \A t \in Callers : Registers(t) =>
          IF in_flight[key[t]] = None
          THEN /\ is_leader'[t] /\ fn_call'[t] = t
               /\ calls'[t] = NewCall
               /\ in_flight'[key[t]] = t
          ELSE fn_call'[t] = in_flight[key[t]]

C5_InvalidationFreshness == [][C5_FreshStep]_vars

\* C5 witness: the entry of leader c was dropped while c executes, and a
\* caller that arrived later leads a fresh PendingCall registered for the key.
C5_Witness ==
    \E c, t \in Callers :
        /\ c < t /\ key[c] = key[t]
        /\ Orphaned(c) /\ pc[c] = "work"
        /\ t \in Leaders /\ in_flight[key[t]] = t /\ pc[t] = "work"
        /\ calls[t] = NewCall

\* A step leaves every caller's position and every PendingCall's Result and
\* signal as they were.
CallersUntouched ==
    /\ UNCHANGED <<pc, key, fn_call, is_leader, ret>>
    /\ \A c \in Callers :
          calls'[c].result = calls[c].result /\ calls'[c].event = calls[c].event

\* C6: forget(K) leaves attached callers alone: it changes no caller and no
\* PendingCall's Result or signal.  A caller attached to a PendingCall, dropped
\* from the registry or not, is released only after the Result is stored, is
\* released once the leader is through, and returns exactly that Result.
C6_AttachedKeepOutcome ==
    \A t \in Registered :
        /\ calls[fn_call[t]].event => calls[fn_call[t]].result.tag # "unset"
        /\ (pc[t] = "wait" /\ pc[fn_call[t]] \in {"wait", "done"}) => calls[fn_call[t]].event
        /\ Orphaned(fn_call[t]) => ~calls[fn_call[t]].event /\ pc[t] # "done"
        /\ pc[t] = "done" => NormalOutcome(t)

C6_ForgetStep == \A k \in Keys : forget(k) => CallersUntouched

C6_ForgetKeepsAttached == [](C6_AttachedKeepOutcome) /\ [][C6_ForgetStep]_vars

\* C6 witness: the entry of leader c was dropped while a follower was
\* attached; c has stored its value and the follower still waits on c's
\* PendingCall.
C6_Witness ==
    \E c, t \in Callers :
        /\ c # t /\ fn_call[t] = c /\ pc[t] = "wait"
        /\ Orphaned(c) /\ pc[c] = "lock2"
        /\ calls[c].result = Success(c)

RECURSIVE PopEach(_, _)
\* forget(k) applied to the registry for every k of ks, one after the other.
PopEach(d, ks) ==
    IF ks = {} THEN d
    ELSE LET k == CHOOSE x \in ks : TRUE IN PopEach([d EXCEPT ![k] = None], ks \ {k})

\* C7: forget_all() is forget(K) for every key at once: it leaves the
\* registry empty and touches no caller, no Result or signal and no counter;
\* every caller that has returned was delivered its own PendingCall's outcome,
\* and a caller that registers on the emptied registry becomes a leader.
C7_ForgetAllStep ==
    /\ forget_all =>
          /\ \A k \in Keys : in_flight'[k] = None
          /\ in_flight' = PopEach(in_flight, Keys)
          /\ CallersUntouched
          /\ UNCHANGED <<stats, lock>>
    /\ \A t \in Callers :
          (Registers(t) /\ \A k \in Keys : in_flight[k] = None) =>
              is_leader'[t] /\ in_flight'[key[t]] = t

C7_Delivered == \A t \in Callers : pc[t] = "done" => NormalOutcome(t)

C7_ForgetAll == [](C7_Delivered) /\ [][C7_ForgetAllStep]_vars

\* C7 witness: the entries of two executing leaders on different keys were
\* dropped, and a third caller has become the new leader for one of the keys
\* while both keep running; the other key is absent.
C7_Witness ==
    \E c1, c2, t \in Callers :
        /\ key[c1] # key[c2]
        /\ pc[c1] = "work" /\ Orphaned(c1)
        /\ pc[c2] = "work" /\ Orphaned(c2)
        /\ t \notin {c1, c2} /\ pc[t] = "invoke" /\ in_flight[key[t]] = t
        /\ \A k \in Keys \ {key[t]} : in_flight[k] = None

\* C8: reset_stats() sets the four counters to 0 and changes neither the
\* registry nor any caller or PendingCall; every caller that returns after a
\* reset is delivered its PendingCall's outcome.
C8_ResetStep ==
    reset_stats =>
        /\ stats' = [hits |-> 0, misses |-> 0, errors |-> 0, in_flight |-> 0]
        /\ in_flight' = in_flight
        /\ calls' = calls
        /\ CallersUntouched

C8_Resolved ==
    \A t \in Callers : (resetCalled /\ pc[t] = "done") => NormalOutcome(t)

C8_ResetIndependence == [](C8_Resolved) /\ [][C8_ResetStep]_vars

\* C8 witness: the only leader so far and its follower have returned the
\* leader's value although a reset hit while they were in flight (the
\* leader's decrement then took in_flight below 0).
C8_Witness ==
    /\ Started = {1, 2}
    /\ resetCalled
    /\ stats.in_flight = -1 /\ stats.misses = 0 /\ stats.hits = 0
    /\ fn_call[2] = 1
    /\ pc[1] = "done" /\ ret[1] = [kind |-> "return", val |-> 1]
    /\ pc[2] = "done" /\ ret[2] = [kind |-> "return", val |-> 1]

\* Caller t becomes a leader in this step.
LeaderRegisters(t) == Registers(t) /\ is_leader'[t]

\* C9: after a reset_stats() the in_flight counter reads 0, and while no new
\* leader has registered since the reset (misses is still 0) it stays 0: no
\* step other than the registration of a new leader, the completion of the
\* leaders that were in flight at the reset included, moves it away from 0.
C9_ResetQuirk ==
    [][ /\ reset_stats => stats'.in_flight = 0
        /\ (resetCalled /\ stats.misses = 0 /\ stats.in_flight = 0)
              => \/ stats'.in_flight = 0
                 \/ \E t \in Callers : LeaderRegisters(t) ]_vars

\* C10: get_stats() changes nothing but the object it returns, which holds
\* the counters as they are at that moment; an object returned earlier changes
\* only by being replaced by the next get_stats(): calls, forgets and resets
\* that change the coordinator's counters leave it as it was.
C10_SnapshotStep ==
    snap' # snap =>
        /\ snap'.val = stats
        /\ UNCHANGED <<mode, req, pc, key, fn_call, is_leader, ret, in_flight, calls,
                       lock, stats, errTmp, running, call_count, resetCalled>>

C10_Snapshot == [][C10_SnapshotStep]_vars

\* C10 witness: a snapshot taken when misses was 1 and a leader was in flight
\* still shows that after a follower's hit, the leader's completion and a
\* reset have changed the coordinator's counters.
C10_Witness ==
    /\ snap.ref # "none"
    /\ snap.val = [hits |-> 0, misses |-> 1, errors |-> 0, in_flight |-> 1]
    /\ resetCalled
    /\ stats = [hits |-> 0, misses |-> 0, errors |-> 0, in_flight |-> -1]
    /\ \E t \in Callers : pc[t] = "done" /\ ~is_leader[t]

\* The leaders between their registration and their own removal step.
InProgress == {c \in Leaders : pc[c] \in {"invoke", "work", "err_read",
                                          "err_write", "lock2", "fin"}}

\* C11: calls with distinct keys never share a PendingCall, and a call that
\* is alone on its key leads and executes its own work; they never block one
\* another: the lock is held only inside the two registry blocks, never while
\* the work runs or a caller waits, a waiting caller waits only on a
\* PendingCall of its own key, and a task inside the work function has given
\* up the processor.
C11_NoCoalesce ==
    /\ \A t, u \in Registered : key[t] # key[u] => fn_call[t] # fn_call[u]
    /\ \A t \in Registered : OnKey(key[t]) = {t} =>
          /\ is_leader[t] /\ fn_call[t] = t
          /\ pc[t] = "done" => call_count[t] = 1

C11_NoBlock ==
    /\ lock # None => pc[lock] \in {"reg", "fin"}
    /\ \A t \in Callers : pc[t] = "wait" => key[fn_call[t]] = key[t]
    /\ \A t \in Callers : pc[t] = "work" => running # t

C11_KeyIndependence == C11_NoCoalesce /\ C11_NoBlock

\* C11 witness: the leader for K1 is still inside the work function while a
\* call for K2 that arrived later has registered as leader, executed its own
\* work and returned its own value.
C11_Witness ==
    \E t1, t2 \in Callers :
        /\ t1 < t2 /\ key[t1] = "K1" /\ key[t2] = "K2"
        /\ t1 \in InProgress /\ pc[t1] = "work" /\ in_flight["K1"] = t1
        /\ is_leader[t2] /\ pc[t2] = "done" /\ call_count[t2] = 1
        /\ ret[t2] = [kind |-> "return", val |-> t2]

\* C12: registration is one step under the lock: a caller becomes leader only
\* on finding its key absent, holding the lock, and leaves its own PendingCall
\* under the key, so the next registrant for the key finds it.  The registry
\* maps a key to at most one PendingCall, that of a leader for this key that
\* has not yet run its removal step; with no forget and no forget_all, no two
\* leaders for one key are in progress at the same time.
C12_OnePerKey ==
    /\ \A k \in Keys : in_flight[k] # None =>
          in_flight[k] \in InProgress /\ key[in_flight[k]] = k
    /\ \A c1, c2 \in InProgress : key[c1] = key[c2] => c1 = c2
    /\ \A c \in InProgress : in_flight[key[c]] = c

C12_LeaderStep ==
    \A t \in Callers : LeaderRegisters(t) =>
        /\ lock = t
        /\ in_flight[key[t]] = None
        /\ in_flight'[key[t]] = t
        /\ \A u \in Callers \ {t} : is_leader'[u] = is_leader[u]

C12_LeaderUniqueness == [](C12_OnePerKey) /\ [][C12_LeaderStep]_vars

\* C12 witness: three callers registered for one key; one is the leader, in
\* the work function, the other two found its PendingCall and wait on it.
C12_Witness ==
    \E c \in Callers :
        /\ InProgress = {c} /\ pc[c] = "work" /\ in_flight[key[c]] = c
        /\ Cardinality(OnKey(key[c])) = 3
        /\ \A t \in OnKey(key[c]) \ {c} : pc[t] = "wait" /\ fn_call[t] = c /\ ~is_leader[t]

\* Caller t enters call() for key k in this step, after some call for k has
\* returned.  It holds the lock from this step to its registration, so the
\* registry it will find is the registry of this step.
StartsAfterReturn(t, k) ==
    call(t, k) /\ \E u \in Callers : pc[u] = "done" /\ key[u] = k

\* C13 as stated: a call for K that starts after an earlier call for K has
\* returned always finds K absent and becomes a new leader.
C13_AlwaysNewLeader ==
    [][ \A t \in Callers, k \in Keys :
            StartsAfterReturn(t, k) => in_flight[k] = None ]_vars

\* C13: a registering caller is never attached to a PendingCall that a
\* returned call was attached to, so no result outlives the calls that
\* overlapped its execution; a caller that registers for K when every call
\* registered for K so far has returned becomes the leader of a fresh
\* PendingCall, and a leader that returns has executed the work itself.  (A
\* call that starts after an earlier call returned while a later leader for K
\* is still registered is attached to that later leader.)
C13_FreshStep ==
    \A t \in Callers : Registers(t) =>
        /\ \A u \in Callers : pc[u] = "done" => fn_call'[t] # fn_call[u]
        /\ (\A u \in OnKey(key[t]) : pc[u] = "done") =>
              /\ is_leader'[t] /\ fn_call'[t] = t
              /\ calls'[t] = NewCall /\ in_flight'[key[t]] = t

C13_Reexecutes ==
    /\ \A t \in Callers : pc[t] = "reg" => lock = t
    /\ \A t \in Leaders : pc[t] = "done" => call_count[t] = 1
    /\ \A t \in Registered : ~is_leader[t] => fn_call[t] < t

C13_NoCaching == [](C13_Reexecutes) /\ [][C13_FreshStep]_vars

\* C13 witness: in the cooperative model, where a leader's removal and
\* return are one uninterrupted run, a second call for the same key led a new
\* execution after the first had returned; both returned their own value and
\* the work ran twice.
C13_Witness ==
    \E u, t \in Callers :
        /\ mode = "async" /\ u < t /\ key[u] = key[t]
        /\ Started = {u, t}
        /\ pc[u] = "done" /\ ret[u] = [kind |-> "return", val |-> u]
        /\ is_leader[t] /\ pc[t] = "done" /\ ret[t] = [kind |-> "return", val |-> t]
        /\ Executions(key[t]) = 2

\* The leaders whose work raised.
Failed == {c \in Leaders : calls[c].result.tag = "error"}

\* C14: the work is entered at most once per call, also when it raises; the
\* step in which it raises enters nothing again and leads to the same removal
\* step as a success: that step leaves the key absent and takes 1 off
\* in_flight whatever the Result holds, so a failed leader that is through
\* is out of the registry; with every call returned the registry is empty and
\* in_flight is 0; a call that registers for the key once the failed call
\* and every other call for it have returned leads and executes again.
C14_CleanedUp ==
    /\ \A t \in Callers : call_count[t] <= 1
    /\ \A c \in Failed : call_count[c] = 1
    /\ \A c \in Failed : pc[c] \in {"set", "wait", "done"} => in_flight[key[c]] # c
    /\ Quiescent => /\ \A k \in Keys : in_flight[k] = None
                    /\ stats.in_flight = 0
    /\ \A t \in Leaders : pc[t] = "done" => call_count[t] = 1

C14_FailureStep ==
    \A t \in Callers :
        /\ (pc[t] = "work" /\ calls'[t].result.tag = "error") =>
              /\ call_count' = call_count
              /\ pc'[t] = "err_read"
              /\ calls'[t].result = Failure(t)
        /\ (pc[t] = "fin" /\ pc'[t] = "set") =>
              /\ in_flight'[key[t]] = None
              /\ stats'.in_flight = stats.in_flight - 1
              /\ calls'[t] = calls[t]
        /\ (Registers(t) /\ \A u \in OnKey(key[t]) : pc[u] = "done") =>
              is_leader'[t] /\ pc'[t] = "invoke"

C14_NoRetry == [](C14_CleanedUp) /\ [][C14_FailureStep]_vars

\* C14 witness: in the cooperative model the first call for a key failed
\* after one execution and returned its error; the next call for the key led
\* a second execution and returned its value; the registry is empty, in_flight
\* is 0, misses is 2 and errors is 1.
C14_Witness ==
    \E u, t \in Callers :
        /\ mode = "async" /\ u < t /\ key[u] = key[t]
        /\ Started = {u, t}
        /\ u \in Failed /\ pc[u] = "done" /\ call_count[u] = 1
        /\ ret[u] = [kind |-> "raise", val |-> u]
        /\ is_leader[t] /\ pc[t] = "done" /\ call_count[t] = 1
        /\ ret[t] = [kind |-> "return", val |-> t]
        /\ \A k \in Keys : in_flight[k] = None
        /\ stats = [hits |-> 0, misses |-> 2, errors |-> 1, in_flight |-> 0]

\* C15: a PendingCall whose signal is set holds success(value) or
\* failure(error), and every caller that returned from the unwrap read such a
\* Result, however the leader's work ended: by a value, by an Exception, or by
\* an error that is not an Exception (the cancellation of the leader's task
\* included).
C15_NoUnsetExposed ==
    /\ \A c \in Leaders : calls[c].event => calls[c].result.tag # "unset"
    /\ \A t \in Registered :
          (pc[t] = "done" /\ ret[t] \notin {Uncaught, Cancelled})
              => calls[fn_call[t]].result.tag # "unset"

\* The callers whose wait was cancelled.
CancelledWaiters == {t \in Registered : pc[t] = "done" /\ ret[t] = Cancelled}

\* C16: the cancellation of a waiting follower changes that follower alone:
\* the registry, every PendingCall, the counters, the lock and every other
\* caller are as they were.  A leader that is through has removed its entry
\* and set its signal whether or not a follower was cancelled; every other
\* caller of a PendingCall whose leader stored an outcome returns that
\* outcome; with every call returned the registry is empty and hits, misses
\* and in_flight are what the registrations made them, the cancelled
\* follower's hit included.
C16_CancelStep ==
    \A t \in Callers : cancel_wait(t) =>
        /\ UNCHANGED <<in_flight, calls, stats, lock, key, fn_call, is_leader,
                       call_count>>
        /\ \A u \in Callers \ {t} : pc'[u] = pc[u] /\ ret'[u] = ret[u]

C16_OthersServed ==
    /\ \A c \in Leaders : pc[c] \in {"wait", "done"} =>
          calls[c].event /\ in_flight[key[c]] # c
    /\ \A t \in Registered :
          ( /\ pc[t] = "done" /\ t \notin CancelledWaiters
            /\ ret[fn_call[t]] # Uncaught )
          => NormalOutcome(t)
    /\ \A t \in CancelledWaiters : ~is_leader[t] /\ call_count[t] = 0
    /\ Quiescent =>
          /\ \A k \in Keys : in_flight[k] = None
          /\ stats.hits = Cardinality(Registered \ Leaders)
          /\ stats.misses = Cardinality(Leaders)
          /\ stats.in_flight = 0

C16_FollowerCancel == [](C16_OthersServed) /\ [][C16_CancelStep]_vars

\* C16 witness: of two followers of one leader one was cancelled while it
\* waited; the leader then completed, and it and the other follower returned
\* its value; the registry is empty and the counters are those of one miss
\* and two hits.
C16_Witness ==
    \E c, t, u \in Callers :
        /\ Attached(c) = {c, t, u} /\ t # u /\ c \notin {t, u}
        /\ t \in CancelledWaiters
        /\ pc[c] = "done" /\ ret[c] = [kind |-> "return", val |-> c]
        /\ pc[u] = "done" /\ ret[u] = [kind |-> "return", val |-> c]
        /\ \A k \in Keys : in_flight[k] = None
        /\ stats = [hits |-> 2, misses |-> 1, errors |-> 0, in_flight |-> 0]

\* The key call() derives from the arguments when it is given none.
AutoKey(a) == WorkFn \o ":" \o generate_key(a)

\* C17: a key the caller supplies is the registry key of its call, unchanged,
\* for every string including the empty one; the derived key is used only
\* when no key is supplied.
C17_ExplicitKeyUnchanged ==
    \A t \in Started :
        IF req[t].key.given
        THEN key[t] = req[t].key.text
        ELSE key[t] = AutoKey(req[t].args)

\* Two argument lists are equal by value: the same positional values in the
\* same order and the same keyword arguments, in whatever order written.
ArgsEqual(a, b) ==
    /\ a.pos = b.pos
    /\ {a.kw[i] : i \in DOMAIN a.kw} = {b.kw[i] : i \in DOMAIN b.kw}

\* The callers that supplied no key.
Keyless == {t \in Started : ~req[t].key.given}

\* C18: for calls without a key to the same work function, the derived keys
\* are equal exactly when the arguments are equal by value.  A keyless caller
\* that registers while a keyless call with equal arguments is registered is
\* attached to that call's PendingCall and does not execute; keyless callers
\* whose arguments differ never share a PendingCall.
C18_SameArgsSameKey ==
    /\ \A t, u \in Keyless :
          ArgsEqual(req[t].args, req[u].args) <=> key[t] = key[u]
    /\ \A t, u \in Keyless \cap Registered :
          ~ArgsEqual(req[t].args, req[u].args) => fn_call[t] # fn_call[u]

C18_CoalesceStep ==
    \A t, u \in Keyless :
        ( /\ Registers(t)
          /\ u \in InProgress /\ in_flight[key[u]] = u
          /\ ArgsEqual(req[t].args, req[u].args) )
        => /\ fn_call'[t] = u /\ ~is_leader'[t]
           /\ call_count' = call_count

C18_DerivedKeys == [](C18_SameArgsSameKey) /\ [][C18_CoalesceStep]_vars

\* C18 witness: f("u1", a=1, b=2) and f("u1", b=2, a=1), both without a key,
\* overlapped: the second was attached to the first, the work ran once and
\* both returned its value.
C18_Witness ==
    \E t, u \in Keyless :
        /\ t < u
        /\ req[t].args # req[u].args
        /\ ArgsEqual(req[t].args, req[u].args)
        /\ is_leader[t] /\ fn_call[u] = t
        /\ pc[t] = "done" /\ pc[u] = "done"
        /\ ret[u] = [kind |-> "return", val |-> t]
        /\ call_count[t] = 1 /\ call_count[u] = 0

\* The callers that came through a wrapper made with key function kf.
Through(kf) == {t \in Started : req[t].via = kf}

\* C20: a wrapper invocation with arguments a is call(key_fn(a), work, a)
\* when a key_fn was given and call(None, work, a) otherwise; a wrapper
\* invocation that registers while another invocation of the same wrapper is
\* registered and executing is attached to it exactly when key_fn gives both
\* argument lists the same key, whether or not the arguments are equal.
C20_WrapperIsCall ==
    \A kf \in KeyFns : \A t \in Through(kf) :
        /\ req[t].key = (IF kf = "none" THEN NoKey ELSE Explicit(key_fn(kf, req[t].args)))
        /\ key[t] = DeriveKey(req[t].key, WorkFn, req[t].args)

C20_CoalesceStep ==
    \A kf \in KeyFns \ {"none"} : \A t, u \in Through(kf) :
        ( /\ Registers(t)
          /\ u \in InProgress /\ in_flight[key[u]] = u )
        => ( (key_fn(kf, req[t].args) = key_fn(kf, req[u].args))
               <=> (fn_call'[t] = u /\ ~is_leader'[t]) )

C20_GroupEquivalence == [](C20_WrapperIsCall) /\ [][C20_CoalesceStep]_vars

\* The failed leaders that are through with their `errors += 1`.
ErrorsCounted == {c \in Failed : pc[c] \notin {"err_read", "err_write"}}

\* What the events so far make the four counters on a coordinator that was
\* not reset: a hit per follower registered, a miss per leader registered, an
\* error per failed execution counted, in_flight up at a leader's registration
\* and down at its removal step.
EventCounters ==
    [hits |-> Cardinality(Registered \ Leaders),
     misses |-> Cardinality(Leaders),
     errors |-> Cardinality(ErrorsCounted),
     in_flight |-> Cardinality(InProgress)]

\* C19: the blocking and the cooperative coordinator show the same
\* observables after the same registrations, work completions, forgets and
\* forget_alls: in either of them the registry holds only PendingCalls of
\* leaders before their removal step, the four counters are the ones the
\* events determine, and every caller that returned was delivered the Result
\* of the PendingCall it captured.
C19_SameObservables ==
    /\ \A k \in Keys : in_flight[k] # None =>
          in_flight[k] \in InProgress /\ key[in_flight[k]] = k
    /\ stats = EventCounters
    /\ \A t \in Callers : pc[t] = "done" => ret[t] = unwrap(calls[fn_call[t]].result)

\* Caller t runs its removal step (the `with self.lock:` block of the
\* finally) in this step.
Removes(t) == pc[t] = "fin" /\ pc'[t] = "set"

\* C21: a finishing leader removes the registry entry of its key only if the
\* entry is its own PendingCall: a removal step by a leader whose entry was
\* dropped leaves the registry as it is, so the PendingCall a newer leader
\* registered for the key stays, and a caller that registers while a leader
\* that registered after every forget of its key is still before its removal
\* step is attached to that leader.
C21_ConditionalRemoval ==
    [][ \A t \in Callers : Removes(t) =>
            in_flight' = (IF in_flight[key[t]] = t
                          THEN Pop(in_flight, key[t]) ELSE in_flight) ]_vars

\* The number of keys in the registry.
RegisteredKeys == Cardinality({k \in RegistryKeys : in_flight[k] # None})

\* C22: whenever the lock is free on a coordinator that was not reset, the
\* in_flight counter is the number of keys in the registry.
C22_InFlightCountsKeys ==
    (lock = None /\ ~resetCalled) => stats.in_flight = RegisteredKeys

\* C23: a caller that is about to enter, or is inside, the work function, and
\* a caller at the wait on the completion signal, does not hold the lock: the
\* lock has a holder only between the entry of one of the two registry blocks
\* and its end.
C23_LockFreeOutside ==
    /\ \A t \in Callers : pc[t] \in {"invoke", "work", "wait"} => lock # t
    /\ \A t \in Callers : lock = t <=> pc[t] \in {"reg", "fin"}

\* C23 witness: a leader is inside the work function and a follower of it
\* waits on its signal while a third caller holds the lock in its
\* registration block.
C23_Witness ==
    \E c, t, u \in Callers :
        /\ pc[c] = "work" /\ is_leader[c]
        /\ pc[t] = "wait" /\ fn_call[t] = c /\ ~calls[c].event
        /\ pc[u] = "reg" /\ lock = u

\* C24: every step that changes one of the four counters, other than a
\* reset, is a step of a caller that holds the lock, and no update is lost:
\* on a coordinator that was not reset, errors is the number of failed
\* executions whose leader is through with counting, also when leaders for
\* distinct keys fail at the same time.
C24_MutationStep ==
    stats' # stats =>
        \/ reset_stats
        \/ \E t \in Callers : lock = t /\ pc'[t] # pc[t]

C24_NoLostUpdate == ~resetCalled => stats.errors = Cardinality(ErrorsCounted)

C24_CountersUnderLock == [](C24_NoLostUpdate) /\ [][C24_MutationStep]_vars

\* C25: the signal of a PendingCall is set only once its leader is through
\* with its removal step, so the registry never maps a key to a PendingCall
\* whose signal is set, the signal is raised by the leader's step right after
\* its removal step, and a caller that registers as a follower is attached to
\* a PendingCall whose signal is not set.
C25_NoSignalledEntry ==
    /\ \A k \in RegistryKeys : in_flight[k] # None => ~calls[in_flight[k]].event
    /\ \A c \in Leaders : calls[c].event =>
          pc[c] \in {"wait", "done"} /\ in_flight[key[c]] # c

C25_SignalStep ==
    /\ \A c \in Callers : (~calls[c].event /\ calls'[c].event) =>
          pc[c] = "set" /\ in_flight[key[c]] # c /\ in_flight' = in_flight
    /\ \A t \in Callers : (Registers(t) /\ ~is_leader'[t]) =>
          ~calls[fn_call'[t]].event /\ ~calls'[fn_call'[t]].event

C25_RemovalBeforeSignal == [](C25_NoSignalledEntry) /\ [][C25_SignalStep]_vars

\* C25 witness: leader c has run its removal step and has not yet set its
\* signal; its follower still waits, and a caller that arrived meanwhile found
\* the key absent and registered a PendingCall of its own.
C25_Witness ==
    \E c, t, u \in Callers :
        /\ is_leader[c] /\ pc[c] = "set" /\ ~calls[c].event
        /\ fn_call[t] = c /\ t # c /\ pc[t] = "wait"
        /\ key[u] = key[c] /\ is_leader[u] /\ in_flight[key[c]] = u

\* C26: the signal of a PendingCall goes from unset to set in one step only,
\* the step of its own leader that follows the leader's removal step, and
\* never back; the removal step leads to that step whether or not it found
\* the leader's entry, so a leader that is past it has set its signal and no
\* signal is set for a caller that is not a leader.
C26_SetStep ==
    \A c \in Callers :
        /\ calls'[c].event # calls[c].event =>
              /\ ~calls[c].event
              /\ is_leader[c] /\ fn_call[c] = c
              /\ pc[c] = "set" /\ pc'[c] # "set"
              /\ \A u \in Callers \ {c} : pc'[u] = pc[u]
        /\ Removes(c) => ~calls[c].event /\ ~calls'[c].event
        /\ (pc[c] = "set" /\ pc'[c] # "set") => ~calls[c].event /\ calls'[c].event

C26_SetByLeader ==
    \A c \in Callers :
        /\ calls[c].event => c \in Leaders
        /\ (c \in Leaders /\ pc[c] \in {"wait", "done"}) => calls[c].event
        /\ (c \in Leaders /\ pc[c] \notin {"wait", "done"}) => ~calls[c].event

C26_SignalOnce == [](C26_SetByLeader) /\ [][C26_SetStep]_vars

\* C26 witness: leader c holds the lock in its removal step, which will not
\* find its entry: a forget dropped it; its follower waits on the signal that
\* c sets next.
C26_Witness ==
    \E c, t \in Callers :
        /\ Orphaned(c) /\ pc[c] = "fin" /\ lock = c
        /\ in_flight[key[c]] = None
        /\ calls[c].result.tag # "unset" /\ ~calls[c].event
        /\ t # c /\ fn_call[t] = c /\ pc[t] = "wait"

\* C27: with a terminating work function and fair scheduling, every caller
\* that has entered call() eventually returns from it, leader or follower,
\* whatever forget and forget_all do meanwhile and whenever the follower
\* attached.
C27_Liveness == \A t \in Callers : (pc[t] # "idle") ~> (pc[t] = "done")

\* C27 witness: a leader and the follower attached to its PendingCall have
\* both returned the leader's outcome.
C27_Witness ==
    \E c, t \in Callers :
        /\ c # t /\ is_leader[c] /\ fn_call[t] = c
        /\ Started = {c, t}
        /\ pc[c] = "done" /\ pc[t] = "done"
        /\ ret[c] = unwrap(calls[c].result) /\ ret[t] = ret[c]

\* The calls made from inside a work function that have registered.
Inner == {u \in Registered : req[u].by # None}

\* C28: a call for K made by the work function that runs as leader for K,
\* with no forget in between, registers as a follower of that leader and is
\* counted as a hit; from then on, in every reachable state, the inner call
\* waits on the leader's signal, the leader is inside its work function, the
\* signal is unset, K is registered and the in_flight counter still counts
\* the leader: neither call returns.
C28_Stalled ==
    /\ \A u \in Inner :
          /\ ~is_leader[u] /\ fn_call[u] = req[u].by /\ key[u] = key[req[u].by]
          /\ pc[u] = "wait" /\ pc[req[u].by] = "work"
          /\ ~calls[req[u].by].event
          /\ in_flight[key[u]] = req[u].by
          /\ ret[u] = NoRet /\ ret[req[u].by] = NoRet
    /\ stats.in_flight >= Cardinality({req[u].by : u \in Inner})
    /\ stats.hits >= Cardinality(Inner)

C28_InnerStep ==
    \A u \in Callers : (Registers(u) /\ req[u].by # None) =>
        /\ stats'.hits = stats.hits + 1
        /\ stats'.misses = stats.misses /\ stats'.in_flight = stats.in_flight
        /\ call_count' = call_count

C28_ReentrancyStalls == [](C28_Stalled) /\ [][C28_InnerStep]_vars

\* C28 witness: the leader for a key is inside its work function, the call
\* its work function made for the same key waits as its follower, and every
\* other caller has returned: no step of the two is enabled any more.
C28_Witness ==
    \E t, u \in Callers :
        /\ req[u].by = t /\ pc[u] = "wait" /\ pc[t] = "work"
        /\ in_flight[key[t]] = t
        /\ \A v \in Callers \ {t, u} : pc[v] = "done"
        /\ stats.hits >= 1 /\ stats.in_flight = 1
        /\ ~ENABLED (Run(t) \/ Run(u))

\* C29: across any step other than reset_stats(), hits, misses and errors
\* never decrease; forget, forget_all and get_stats leave them unchanged.
C29_MonotoneLedger ==
    [][/\ reset_stats
          \/ /\ stats'.hits >= stats.hits
             /\ stats'.misses >= stats.misses
             /\ stats'.errors >= stats.errors
       /\ ((\E k \in Keys : forget(k)) \/ forget_all \/ get_stats) =>
             /\ stats'.hits = stats.hits
             /\ stats'.misses = stats.misses
             /\ stats'.errors = stats.errors]_vars

\* The callers whose key derivation raised.
DeriveFailed == {t \in Callers : ret[t] = DeriveError}

\* C30: when no usable key is given and deriving it from the arguments
\* raises, the step changes nothing but that caller: the registry, the
\* PendingCalls, the four counters, the lock and every other caller are as
\* before; the caller gets the error, and is never a leader or a follower, so
\* the counters account only for the other callers.
C30_FailureStep ==
    \A t \in Callers : (pc[t] = "idle" /\ ret'[t] = DeriveError) =>
        /\ in_flight' = in_flight /\ calls' = calls /\ stats' = stats
        /\ lock' = lock /\ call_count' = call_count
        /\ key' = key /\ fn_call' = fn_call /\ is_leader' = is_leader
        /\ \A u \in Callers \ {t} : pc'[u] = pc[u] /\ ret'[u] = ret[u]

C30_NotRegistered ==
    /\ \A t \in DeriveFailed :
          /\ pc[t] = "done" /\ fn_call[t] = None /\ ~is_leader[t]
          /\ calls[t] = NewCall /\ \A k \in RegistryKeys : in_flight[k] # t
          /\ \A u \in Callers : fn_call[u] # t
    /\ stats.hits + stats.misses = Cardinality(Registered \ DeriveFailed)
    /\ stats.in_flight = Cardinality(InProgress)

C30_DeriveFailureIsolated == [](C30_NotRegistered) /\ [][C30_FailureStep]_vars

\* C30 witness: a caller's key derivation raised while a leader was inside
\* its work function with registry and counters as that leader left them.
C30_Witness ==
    \E t, u \in Callers :
        /\ ret[t] = DeriveError /\ req[t].args = BadArgs /\ ~req[t].key.given
        /\ pc[u] = "work" /\ u < t /\ in_flight[key[u]] = u
        /\ stats = [Stats EXCEPT !.misses = 1, !.in_flight = 1]

\* The number of times the work function has been started.
WorkStarts == SumOver(call_count, Callers)

\* The leaders that have registered and not yet started the work function.
AboutToStart == {t \in Leaders : pc[t] = "invoke"}

\* C31 as stated: in every reachable state with no reset_stats, misses
\* equals the number of times the work function has been started.
C31_MissesAreExecutions == stats.misses = WorkStarts

\* C31: with no reset_stats, under any interleaving of calls and forgets,
\* misses equals the number of leaders registered, each of which starts the
\* work function exactly once: the number of starts plus the leaders that
\* have left registration and not yet started; the two are equal whenever no
\* leader is between its registration and its start.
C31_CountsLeaders ==
    /\ stats.misses = WorkStarts + Cardinality(AboutToStart)
    /\ stats.misses = Cardinality(Leaders)
    /\ \A t \in Callers :
          call_count[t] = (IF t \in Leaders \ AboutToStart THEN 1 ELSE 0)

C31_StartStep ==
    \A t \in Callers : call_count'[t] # call_count[t] =>
        /\ t \in AboutToStart /\ call_count'[t] = call_count[t] + 1
        /\ stats' = stats

C31_MissesCountExecutions == [](C31_CountsLeaders) /\ [][C31_StartStep]_vars

\* C31 witness: a leader whose entry a forget removed and the leader that
\* registered for the same key after it have both started the work function:
\* two starts, two misses.
C31_Witness ==
    \E c, d \in Leaders :
        /\ c # d /\ key[c] = key[d] /\ Orphaned(c)
        /\ pc[c] = "work" /\ pc[d] = "work"
        /\ WorkStarts = 2 /\ stats.misses = 2

\* C32: with no reset_stats, hits + misses equals the number of call()
\* invocations that have completed their registration step, each counted
\* exactly once, the followers as hits and the leaders as misses; only a
\* registration changes either counter, and it adds one to exactly one.
C32_OncePerCall ==
    /\ stats.hits = Cardinality(Registered \ Leaders)
    /\ stats.misses = Cardinality(Leaders)
    /\ stats.hits + stats.misses = Cardinality(Registered)

C32_RegistrationStep ==
    /\ \A t \in Callers : Registers(t) =>
          \/ stats'.hits = stats.hits + 1 /\ stats'.misses = stats.misses
          \/ stats'.hits = stats.hits /\ stats'.misses = stats.misses + 1
    /\ (\A t \in Callers : ~Registers(t)) =>
          stats'.hits = stats.hits /\ stats'.misses = stats.misses

C32_TotalRequests == [](C32_OncePerCall) /\ [][C32_RegistrationStep]_vars

\* C32 witness: three calls for one key have registered around a forget, a
\* leader, a second leader after the forget and a follower: one hit, two
\* misses, three requests.
C32_Witness ==
    /\ Cardinality(Registered) = 3
    /\ \E c \in Leaders : Orphaned(c)
    /\ \A t, u \in Registered : key[t] = key[u]
    /\ stats.hits = 1 /\ stats.misses = 2

\* C33: stats.in_flight is never negative, under any interleaving of call,
\* forget, forget_all and reset_stats, a reset_stats issued while leaders are
\* still executing included.
C33_InFlightNonNegative == stats.in_flight >= 0

\* C34 as stated: errors never exceeds misses, under any interleaving of
\* call, forget, forget_all and reset_stats.
C34_ErrorsAtMostMisses == stats.errors <= stats.misses

\* C34: while reset_stats has not been called, errors never exceeds misses,
\* under any interleaving of call, forget and forget_all; errors changes only
\* in the `errors += 1` of a leader whose work raised.
C34_BeforeReset == ~resetCalled => (0 <= stats.errors /\ stats.errors <= stats.misses)

C34_ErrorsStep ==
    stats'.errors > stats.errors =>
        \E t \in Leaders : pc[t] = "err_write" /\ pc'[t] = "lock2"
                             /\ calls[t].result.tag = "error"

C34_ErrorsWithinMisses == [](C34_BeforeReset) /\ [][C34_ErrorsStep]_vars

\* C34 witness: with no reset, two leaders have failed and been counted, one
\* of them after a forget removed the other's entry: errors = misses = 2.
C34_Witness ==
    /\ ~resetCalled
    /\ stats.errors = 2 /\ stats.misses = 2
    /\ \A t, u \in Leaders : key[t] = key[u]

\* C35: every registry entry is the PendingCall of a leader for that key
\* that has not yet run its removal, so in every state where all started
\* calls have returned the registry is empty, under any interleaving of calls
\* with forget, forget_all and reset_stats and whether the work returned or
\* raised.
C35_EntriesHaveLeaders ==
    \A k \in RegistryKeys : in_flight[k] # None =>
        /\ in_flight[k] \in Leaders /\ key[in_flight[k]] = k
        /\ pc[in_flight[k]] \in {"invoke", "work", "err_read", "err_write",
                                  "lock2", "fin"}

C35_NoLeakedEntries ==
    /\ C35_EntriesHaveLeaders
    /\ Quiescent => \A k \in RegistryKeys : in_flight[k] = None

\* C35 witness: all calls have returned after a reset, two of them leaders
\* for one key, one whose work raised and one whose work returned, and the
\* registry is empty.
C35_Witness ==
    /\ Quiescent /\ resetCalled
    /\ \E c, d \in Leaders :
          /\ c # d /\ key[c] = key[d]
          /\ c \in Failed /\ ret[d].kind = "return"
    /\ \A k \in RegistryKeys : in_flight[k] = None

\* C36: when reset_stats was never called, the in_flight counter is the
\* number of leaders that have registered and not yet run their removal step,
\* whether or not the registry still holds their entries: in every state
\* where all started calls have returned it is 0, also after forget(K) or
\* forget_all() removed entries of leaders that were still executing and new
\* leaders registered for the same keys.
C36_ZeroAtQuiescence ==
    ~resetCalled =>
        /\ stats.in_flight = Cardinality(InProgress)
        /\ Quiescent => stats.in_flight = 0

\* C36 witness: all calls have returned with no reset, two of them leaders
\* for the same key and the third a follower of the second leader, and the
\* in_flight counter is back at 0.
C36_Witness ==
    /\ Quiescent /\ ~resetCalled
    /\ \E c, d, t \in Callers :
          /\ c < d /\ d < t /\ key[c] = key[d] /\ key[d] = key[t]
          /\ is_leader[c] /\ is_leader[d] /\ fn_call[t] = d
    /\ stats.misses = 2 /\ stats.hits = 1 /\ stats.in_flight = 0

\* C37: forget(K) changes nothing but the registry entry for K: the four
\* counters, every other key's entry and every PendingCall's Result and
\* signal are as before, and so is every caller; on an absent key it changes
\* nothing at all, and applied twice it leaves the same registry as applied
\* once.
C37_ForgetStep ==
    \A k \in Keys : forget(k) =>
        /\ in_flight'[k] = None
        /\ \A j \in RegistryKeys \ {k} : in_flight'[j] = in_flight[j]
        /\ stats' = stats /\ calls' = calls /\ snap' = snap
        /\ CallersUntouched
        /\ UNCHANGED <<lock, call_count, errTmp>>

C37_Idempotent ==
    \A k \in RegistryKeys :
        /\ in_flight[k] = None => Pop(in_flight, k) = in_flight
        /\ Pop(Pop(in_flight, k), k) = Pop(in_flight, k)

C37_ForgetRegistryOnly == [](C37_Idempotent) /\ [][C37_ForgetStep]_vars

\* C37 witness: forget removed the entry of a leader inside its work
\* function with a follower waiting on it: the registry is empty, the
\* counters still read one hit, one miss and one in flight, and the
\* PendingCall is unset and unsignalled.
C37_Witness ==
    \E c, t \in Callers :
        /\ Orphaned(c) /\ pc[c] = "work"
        /\ t # c /\ fn_call[t] = c /\ pc[t] = "wait"
        /\ \A k \in RegistryKeys : in_flight[k] = None
        /\ stats = [Stats EXCEPT !.hits = 1, !.misses = 1, !.in_flight = 1]
        /\ calls[c] = NewCall

\* C38: a caller captures its PendingCall in its own registration step, the
\* one it created (leader) or the one the registry held for its key at that
\* moment (follower), and never changes it; a Result is stored once and never
\* replaced; what the caller returns is the Result of that PendingCall, the
\* value or error of that PendingCall's leader, never the Result of another
\* PendingCall registered for the same key before or after a forget.
C38_CaptureStep ==
    /\ \A t \in Callers : Registers(t) =>
          fn_call'[t] = (IF in_flight[key[t]] = None THEN t ELSE in_flight[key[t]])
    /\ \A t \in Registered : fn_call'[t] = fn_call[t]
    /\ \A c \in Callers : calls[c].result.tag # "unset" =>
          calls'[c].result = calls[c].result
    /\ \A t \in Callers : (pc[t] # "done" /\ pc'[t] = "done") =>
          ret'[t] = unwrap(calls[fn_call[t]].result)

C38_OwnOutcome ==
    \A t \in Registered :
        /\ fn_call[t] \in Leaders /\ key[fn_call[t]] = key[t]
        /\ is_leader[t] <=> fn_call[t] = t
        /\ pc[t] = "done" =>
              /\ calls[fn_call[t]].result.tag # "unset"
              /\ ret[t] = unwrap(calls[fn_call[t]].result)
              /\ ret[t].val = fn_call[t]

C38_ReturnsCaptured == [](C38_OwnOutcome) /\ [][C38_CaptureStep]_vars

\* C38 witness: a leader c, its follower t and a later leader d for the same
\* key have all returned; c's work raised and d's returned: t was delivered
\* c's error and d its own value.
C38_Witness ==
    \E c, t, d \in Callers :
        /\ c < t /\ t < d /\ key[c] = key[t] /\ key[t] = key[d]
        /\ fn_call[t] = c /\ is_leader[c] /\ is_leader[d]
        /\ pc[c] = "done" /\ pc[t] = "done" /\ pc[d] = "done"
        /\ ret[c] = [kind |-> "raise", val |-> c]
        /\ ret[t] = [kind |-> "raise", val |-> c]
        /\ ret[d] = [kind |-> "return", val |-> d]

====
